---- MODULE Spec2Model ----
(***************************************************************************)
(* Model of scripts/create_app_user.py: a one-shot script that reads its   *)
(* configuration from the process environment, opens a pymongo client as   *)
(* administrator, issues one createUser command and reports the result.    *)
(*                                                                         *)
(* Strings are TLA+ strings, inspected character by character with SubSeq  *)
(* and joined with \o, as the script's f-strings and the driver's URI      *)
(* parser do.  A process run is a sequence of steps (pc); the server and   *)
(* its accounts outlive a run, so the script can be run again.             *)
(***************************************************************************)
EXTENDS Integers, Sequences, FiniteSets, TLC

VARIABLES
    env,             \* the process environment: variable name -> Unset | SetTo(s)
    serverUp,        \* the MongoDB server accepts connections
    adminPrivileged, \* the admin account may create users
    users,           \* the accounts stored on the server
    pc,              \* position of the running process
    MONGO_HOST, MONGO_PORT, ADMIN_USER, ADMIN_PASS,
    APP_DB, APP_USER, APP_PASS,
    client,          \* the pymongo.MongoClient of create_app_user
    db,              \* client[APP_DB]
    raised,          \* the exception in flight
    stdout,          \* lines printed
    traceback,       \* type of the uncaught exception reported on stderr
    exitCode,        \* process exit status, -1 until the process ends
    commands,        \* commands this run has issued with db.command
    reply,           \* how the last command ended
    run,             \* number of the current run
    usersAtStart,    \* the server's accounts when the current run started
    prev             \* stdout and accounts at the end of the previous run

world == <<env, serverUp, adminPrivileged>>
globals == <<MONGO_HOST, MONGO_PORT, ADMIN_USER, ADMIN_PASS, APP_DB, APP_USER, APP_PASS>>
history == <<run, usersAtStart, prev>>
vars == <<env, serverUp, adminPrivileged, users, pc, MONGO_HOST, MONGO_PORT,
          ADMIN_USER, ADMIN_PASS, APP_DB, APP_USER, APP_PASS, client, db,
          raised, stdout, traceback, exitCode, commands, reply, run,
          usersAtStart, prev>>

\* How many times the script is run against the same server.
MaxRuns == 2

----------------------------------------------------------------------------
(* Python strings *)

Char(s, i) == SubSeq(s, i, i)

\* needle in s
Contains(needle, s) ==
    \E i \in 0..(Len(s) - Len(needle)) : SubSeq(s, i + 1, i + Len(needle)) = needle

\* s.count(c) for a one-character c
Count(s, c) == Cardinality({i \in 1..Len(s) : Char(s, i) = c})

\* s.find(c) + 1 and s.rfind(c) + 1: 0 when c does not occur
Find(s, c) ==
    IF Contains(c, s)
    THEN CHOOSE i \in 1..Len(s) : Char(s, i) = c /\ \A j \in 1..(i - 1) : Char(s, j) # c
    ELSE 0

RFind(s, c) ==
    IF Contains(c, s)
    THEN CHOOSE i \in 1..Len(s) : Char(s, i) = c /\ \A j \in (i + 1)..Len(s) : Char(s, j) # c
    ELSE 0

\* s.partition(c): <<before, after>>, the whole string and "" when c is absent
Partition(s, c) ==
    IF Find(s, c) = 0 THEN <<s, "">>
    ELSE <<SubSeq(s, 1, Find(s, c) - 1), SubSeq(s, Find(s, c) + 1, Len(s))>>

\* s.rpartition(c): <<before, after>>, "" and the whole string when c is absent
RPartition(s, c) ==
    IF RFind(s, c) = 0 THEN <<"", s>>
    ELSE <<SubSeq(s, 1, RFind(s, c) - 1), SubSeq(s, RFind(s, c) + 1, Len(s))>>

Digits == "0123456789"

\* s.isdigit()
IsDigit(s) == Len(s) > 0 /\ \A i \in 1..Len(s) : Contains(Char(s, i), Digits)

DigitVal(c) == Find(Digits, c) - 1

RECURSIVE DecimalValue(_)
DecimalValue(s) ==
    IF s = "" THEN 0
    ELSE 10 * DecimalValue(SubSeq(s, 1, Len(s) - 1)) + DigitVal(Char(s, Len(s)))

\* int(s) succeeds: an optional sign followed by decimal digits
IntParses(s) ==
    \/ IsDigit(s)
    \/ Len(s) > 1 /\ Head(s) \in {"-", "+"} /\ IsDigit(Tail(s))

\* int(s)
Int_(s) ==
    IF IsDigit(s) THEN DecimalValue(s)
    ELSE IF Head(s) = "-" THEN 0 - DecimalValue(Tail(s))
    ELSE DecimalValue(Tail(s))

RECURSIVE NatStr(_)
NatStr(n) ==
    IF n < 10 THEN Char(Digits, n + 1)
    ELSE NatStr(n \div 10) \o Char(Digits, (n % 10) + 1)

\* str(n), as an f-string formats an int
Str(n) == IF n < 0 THEN "-" \o NatStr(0 - n) ELSE NatStr(n)

----------------------------------------------------------------------------
(* The process environment and os.getenv *)

Unset == [set |-> FALSE, val |-> ""]
SetTo(s) == [set |-> TRUE, val |-> s]

\* Python's None, the result of os.getenv for a variable that is not set
None == Unset

\* os.getenv(name, default)
Getenv(name, default) == IF env[name].set THEN env[name].val ELSE default

\* os.getenv(name)
GetenvOpt(name) == env[name]

\* Variant of the check: `v is None`, which lets the empty string through.
NotIsNone(v) == ~v.set

\* `not v` for v a string or None
Not(v) == ~v.set \/ v.val = ""

\* The environments the process is started in.
Environments ==
    [MONGO_HOST           : {Unset, SetTo("db.internal")},
     MONGO_PORT           : {Unset, SetTo("x"), SetTo("0")},
     MONGO_ADMIN_USER     : {Unset, SetTo("")},
     MONGO_ADMIN_PASSWORD : {Unset, SetTo(""), SetTo("secretA"), SetTo("wrong"), SetTo("p@ss")},
     MONGO_DB             : {Unset, SetTo(""), SetTo("salesdb"), SetTo("sales.db")},
     APP_DB_USER          : {Unset, SetTo(""), SetTo("salesuser")},
     APP_DB_PASSWORD      : {Unset, SetTo(""), SetTo("secretB")}]

----------------------------------------------------------------------------
(* The server the script talks to *)

\* Where the server listens and the administrator account it knows.
ServerAddress == [host |-> "127.0.0.1", port |-> Int_("27031")]
ServerAdmin == [username |-> "mongo-1", password |-> "secretA"]

Account(user, database, pwd, roles) ==
    [user |-> user, db |-> database, pwd |-> pwd, roles |-> roles]

\* Accounts the server may already hold before the first run.
ExistingAccounts ==
    {Account("salesuser", "salesdb", "secretB", {[role |-> "readWrite", db |-> "salesdb"]}),
     Account("appuser", "appdb", "old", {[role |-> "read", db |-> "appdb"]})}

----------------------------------------------------------------------------
(* pymongo: the client, name checks and the result of a command *)

NoClient == [constructed |-> FALSE, closed |-> FALSE,
             username |-> "", password |-> "", host |-> "", port |-> 0]

NoExc == [type |-> "", msg |-> ""]
Exc(type, msg) == [type |-> type, msg |-> msg]

\* How a command ended: not sent yet, carried out, or the exception it raised.
NoReply == [type |-> "none", msg |-> ""]
Ok == [type |-> "ok", msg |-> ""]

\* The URI of lines 32-35.
Uri(user, pass, host, port) ==
    "mongodb://" \o user \o ":" \o pass \o "@" \o host \o ":" \o Str(port)
        \o "/admin?directConnection=true&authSource=admin"

\* pymongo.uri_parser.parse_userinfo
UserinfoError(userinfo) ==
    IF Contains("@", userinfo) \/ Count(userinfo, ":") > 1 THEN "InvalidURI"
    ELSE IF Partition(userinfo, ":")[1] = "" THEN "InvalidURI"
    ELSE ""

\* pymongo.uri_parser.parse_host
HostError(entity) ==
    IF Count(entity, ":") > 1 THEN "ValueError"
    ELSE IF Contains(":", entity)
            /\ LET port == Partition(entity, ":")[2]
               IN  ~IsDigit(port) \/ DecimalValue(port) > 65535 \/ DecimalValue(port) <= 0
         THEN "ValueError"
    ELSE ""

\* pymongo.uri_parser.parse_uri on the URI the script builds: the part before
\* the first "/" is split at its last "@" into the credentials and the host.
ParseUri(uri) ==
    LET scheme_free == SubSeq(uri, Len("mongodb://") + 1, Len(uri))
        host_part   == Partition(scheme_free, "/")[1]
        userinfo    == RPartition(host_part, "@")[1]
        hosts       == RPartition(host_part, "@")[2]
        error       == IF Contains("@", host_part) /\ UserinfoError(userinfo) # ""
                       THEN UserinfoError(userinfo)
                       ELSE HostError(hosts)
    IN  [error    |-> error,
         username |-> IF Contains("@", host_part) THEN Partition(userinfo, ":")[1] ELSE "",
         password |-> IF Contains("@", host_part) THEN Partition(userinfo, ":")[2] ELSE "",
         host     |-> Partition(hosts, ":")[1],
         port     |-> IF error = "" /\ Contains(":", hosts)
                      THEN DecimalValue(Partition(hosts, ":")[2]) ELSE 27017]

\* pymongo.database._check_name: the name of client[name] must be non-empty
\* and free of these characters.
InvalidNameChars == {" ", ".", "$", "/", "\\", "\""}

NameIsValid(name) ==
    name # "" /\ \A i \in 1..Len(name) : Char(name, i) \notin InvalidNameChars

\* Variant of the role list: the grant is scoped to the admin database.
RolesOnAdmin(database) == {[role |-> "readWrite", db |-> "admin"]}

\* The role list of line 45.
Roles(database) == {[role |-> "readWrite", db |-> database]}

\* The command of lines 41-46, sent on database `database`.
CreateUserCommand(database) ==
    [command |-> "createUser", on |-> database, user |-> APP_USER, pwd |-> APP_PASS.val,
     roles |-> Roles(APP_DB)]

Reachable(cl) == serverUp /\ cl.host = ServerAddress.host /\ cl.port = ServerAddress.port

Authenticates(cl) ==
    cl.username = ServerAdmin.username /\ cl.password = ServerAdmin.password

\* The exception db.command raises for command c sent through client cl, NoExc
\* when the server carries it out.  Server selection fails first, then the
\* handshake's authentication, then the server's own checks of createUser.
CommandResult(cl, c) ==
    IF ~Reachable(cl)
    THEN Exc("ServerSelectionTimeoutError", cl.host \o ":" \o Str(cl.port) \o ": connection refused")
    ELSE IF ~Authenticates(cl)
    THEN Exc("OperationFailure", "Authentication failed.")
    ELSE IF ~adminPrivileged
    THEN Exc("OperationFailure", "not authorized on " \o c.on \o " to execute command")
    ELSE IF c.user = ""
    THEN Exc("OperationFailure", "Username cannot be empty")
    ELSE IF \E a \in users : a.user = c.user /\ a.db = c.on
    THEN Exc("OperationFailure", "User \"" \o c.user \o "@" \o c.on \o "\" already exists")
    ELSE NoExc

\* The accounts after the server has carried out createUser command c.
Created(c) == users \cup {Account(c.user, c.on, c.pwd, c.roles)}

----------------------------------------------------------------------------
(* What the script prints *)

AdminPasswordError == "ERROR: MONGO_ADMIN_PASSWORD environment variable must be set"
AppPasswordError == "ERROR: APP_DB_PASSWORD environment variable must be set"

\* line 47
CreatedLine(user, database) ==
    "User '" \o user \o "' created with readWrite role on database '" \o database \o "'."

\* line 50
AlreadyExistsLine(user) == "User '" \o user \o "' already exists."

\* line 52
FailedLine(e) == "Failed to create user: " \o e

\* Variants of the test: equality instead of `in`, and another wording.
IsAlreadyExistsEquals(e) == e = "already exists"
IsAlreadyExistsOtherWording(e) == Contains("exists already", e)

\* The test of line 49 on str(e).
IsAlreadyExists(e) == Contains("already exists", e)

\* Variants of the except clause: one that names a narrower exception class,
\* and a bare `except Exception`.
CatchesNarrow(e) == e.type = "DuplicateKeyError"
CatchesAll(e) == TRUE

\* The except clause of line 48 handles this exception.
Catches(e) == e.type = "OperationFailure"

----------------------------------------------------------------------------
(* The process *)

Init ==
    /\ env \in Environments
    /\ serverUp \in BOOLEAN
    /\ adminPrivileged \in BOOLEAN
    /\ users \in SUBSET ExistingAccounts
    /\ pc = "load_admin"
    /\ MONGO_HOST = "" /\ MONGO_PORT = 0 /\ ADMIN_USER = "" /\ ADMIN_PASS = None
    /\ APP_DB = "" /\ APP_USER = "" /\ APP_PASS = None
    /\ client = NoClient
    /\ db = ""
    /\ raised = NoExc
    /\ stdout = <<>>
    /\ traceback = ""
    /\ exitCode = -1
    /\ commands = <<>>
    /\ reply = NoReply
    /\ run = 1
    /\ usersAtStart = users
    /\ prev = [stdout |-> <<>>, users |-> {}]

\* The process ends with an uncaught exception: a traceback and exit code 1.
Uncaught(type) ==
    /\ traceback' = type
    /\ exitCode' = 1
    /\ pc' = "done"

\* sys.exit(1) after printing `line`.
Fatal(line) ==
    /\ stdout' = Append(stdout, line)
    /\ exitCode' = 1
    /\ pc' = "done"
    /\ UNCHANGED traceback

\* Lines 12-18: the connection parameters, then the check of ADMIN_PASS.
LoadAdmin ==
    /\ pc = "load_admin"
    /\ IF ~IntParses(Getenv("MONGO_PORT", "27031"))
       THEN /\ Uncaught("ValueError")
            /\ MONGO_HOST' = Getenv("MONGO_HOST", "127.0.0.1")
            /\ UNCHANGED <<MONGO_PORT, ADMIN_USER, ADMIN_PASS, stdout>>
       ELSE /\ MONGO_HOST' = Getenv("MONGO_HOST", "127.0.0.1")
            /\ MONGO_PORT' = Int_(Getenv("MONGO_PORT", "27031"))
            /\ ADMIN_USER' = Getenv("MONGO_ADMIN_USER", "mongo-1")
            /\ ADMIN_PASS' = GetenvOpt("MONGO_ADMIN_PASSWORD")
            /\ IF Not(GetenvOpt("MONGO_ADMIN_PASSWORD"))
               THEN Fatal(AdminPasswordError)
               ELSE pc' = "load_app" /\ UNCHANGED <<stdout, traceback, exitCode>>
    /\ UNCHANGED <<world, users, APP_DB, APP_USER, APP_PASS, client, db, raised,
                   commands, reply, history>>

\* Lines 21-26: the application database and user, then the check of APP_PASS.
LoadApp ==
    /\ pc = "load_app"
    /\ APP_DB' = Getenv("MONGO_DB", "appdb")
    /\ APP_USER' = Getenv("APP_DB_USER", "appuser")
    /\ APP_PASS' = GetenvOpt("APP_DB_PASSWORD")
    /\ IF Not(GetenvOpt("APP_DB_PASSWORD"))
       THEN Fatal(AppPasswordError)
       ELSE pc' = "main" /\ UNCHANGED <<stdout, traceback, exitCode>>
    /\ UNCHANGED <<world, users, MONGO_HOST, MONGO_PORT, ADMIN_USER, ADMIN_PASS,
                   client, db, raised, commands, reply, history>>

\* Lines 57-58: the script calls create_app_user.
Main ==
    /\ pc = "main"
    /\ pc' = "build_client"
    /\ UNCHANGED <<world, users, globals, client, db, raised, stdout, traceback,
                   exitCode, commands, reply, history>>

\* Lines 32-36: the URI and the client.  MongoClient parses the URI and raises
\* on a malformed one; it does not wait for the server.
BuildClient ==
    /\ pc = "build_client"
    /\ LET parsed == ParseUri(Uri(ADMIN_USER, ADMIN_PASS.val, MONGO_HOST, MONGO_PORT))
       IN  IF parsed.error # ""
           THEN Uncaught(parsed.error) /\ UNCHANGED client
           ELSE /\ client' = [constructed |-> TRUE, closed |-> FALSE,
                              username |-> parsed.username, password |-> parsed.password,
                              host |-> parsed.host, port |-> parsed.port]
                /\ pc' = "select_db"
                /\ UNCHANGED <<traceback, exitCode>>
    /\ UNCHANGED <<world, users, globals, db, raised, stdout, commands, reply, history>>

\* Line 37: client[APP_DB], which raises InvalidName on a bad database name.
\* The statement is before the try, so nothing closes the client then.
SelectDb ==
    /\ pc = "select_db"
    /\ IF NameIsValid(APP_DB)
       THEN db' = APP_DB /\ pc' = "command" /\ UNCHANGED <<traceback, exitCode>>
       ELSE Uncaught("InvalidName") /\ UNCHANGED db
    /\ UNCHANGED <<world, users, globals, client, raised, stdout, commands, reply, history>>

\* Lines 41-46: db.command("createUser", ...).  The server carries the command
\* out, or db.command raises.
Command ==
    /\ pc = "command"
    /\ LET c == CreateUserCommand(db)
           e == CommandResult(client, c)
       IN  /\ commands' = Append(commands, c)
           /\ raised' = e
           /\ IF e = NoExc
              THEN users' = Created(c) /\ reply' = Ok /\ pc' = "print_created"
              ELSE users' = users /\ reply' = e /\ pc' = "except"
    /\ UNCHANGED <<world, globals, client, db, stdout, traceback, exitCode, history>>

\* Line 47.
PrintCreated ==
    /\ pc = "print_created"
    /\ stdout' = Append(stdout, CreatedLine(APP_USER, APP_DB))
    /\ pc' = "finally"
    /\ UNCHANGED <<world, users, globals, client, db, raised, traceback, exitCode,
                   commands, reply, history>>

\* Variant of the handler that sends the command a second time after a failure.
ExceptRetry ==
    /\ pc = "except"
    /\ IF Len(commands) < 2
       THEN /\ raised' = NoExc
            /\ pc' = "command"
            /\ UNCHANGED stdout
       ELSE /\ IF raised.type = "OperationFailure"
               THEN /\ stdout' = Append(stdout, IF Contains("already exists", raised.msg)
                                                THEN AlreadyExistsLine(APP_USER)
                                                ELSE FailedLine(raised.msg))
                    /\ raised' = NoExc
               ELSE UNCHANGED <<stdout, raised>>
            /\ pc' = "finally"
    /\ UNCHANGED <<world, users, globals, client, db, traceback, exitCode,
                   commands, reply, history>>

\* Variant of the handler that, finding the user present, replaces the stored
\* account with the configured one.
ExceptUpdatesUser ==
    /\ pc = "except"
    /\ IF raised.type = "OperationFailure"
       THEN /\ stdout' = Append(stdout, IF Contains("already exists", raised.msg)
                                        THEN AlreadyExistsLine(APP_USER)
                                        ELSE FailedLine(raised.msg))
            /\ users' = IF Contains("already exists", raised.msg)
                        THEN {a \in users : ~(a.user = APP_USER /\ a.db = db)}
                                 \cup {Account(APP_USER, db, APP_PASS.val, Roles(APP_DB))}
                        ELSE users
            /\ raised' = NoExc
       ELSE UNCHANGED <<stdout, raised, users>>
    /\ pc' = "finally"
    /\ UNCHANGED <<world, globals, client, db, traceback, exitCode,
                   commands, reply, history>>

\* Lines 48-52: the handler, entered for an OperationFailure only; any other
\* exception stays in flight.
Except ==
    /\ pc = "except"
    /\ IF Catches(raised)
       THEN /\ stdout' = Append(stdout, IF IsAlreadyExists(raised.msg)
                                        THEN AlreadyExistsLine(APP_USER)
                                        ELSE FailedLine(raised.msg))
            /\ raised' = NoExc
       ELSE UNCHANGED <<stdout, raised>>
    /\ pc' = "finally"
    /\ UNCHANGED <<world, users, globals, client, db, traceback, exitCode,
                   commands, reply, history>>

\* Lines 53-54: client.close(), then the exception in flight goes on.
Finally ==
    /\ pc = "finally"
    /\ client' = [client EXCEPT !.closed = TRUE]
    /\ IF raised # NoExc
       THEN Uncaught(raised.type)
       ELSE pc' = "return" /\ UNCHANGED <<traceback, exitCode>>
    /\ UNCHANGED <<world, users, globals, db, raised, stdout, commands, reply, history>>

\* Line 58: create_app_user returns and the script ends.
Return ==
    /\ pc = "return"
    /\ exitCode' = 0
    /\ pc' = "done"
    /\ UNCHANGED <<world, users, globals, client, db, raised, stdout, traceback,
                   commands, reply, history>>

\* The script is run again, with the same environment, against the same server.
RunAgain ==
    /\ pc = "done"
    /\ run < MaxRuns
    /\ run' = run + 1
    /\ prev' = [stdout |-> stdout, users |-> users]
    /\ usersAtStart' = users
    /\ pc' = "load_admin"
    /\ MONGO_HOST' = "" /\ MONGO_PORT' = 0 /\ ADMIN_USER' = "" /\ ADMIN_PASS' = None
    /\ APP_DB' = "" /\ APP_USER' = "" /\ APP_PASS' = None
    /\ client' = NoClient
    /\ db' = ""
    /\ raised' = NoExc
    /\ stdout' = <<>>
    /\ traceback' = ""
    /\ exitCode' = -1
    /\ commands' = <<>>
    /\ reply' = NoReply
    /\ UNCHANGED <<world, users>>

Next ==
    \/ LoadAdmin
    \/ LoadApp
    \/ Main
    \/ BuildClient
    \/ SelectDb
    \/ Command
    \/ PrintCreated
    \/ Except
    \/ Finally
    \/ Return
    \/ RunAgain

Spec == Init /\ [][Next]_vars

----------------------------------------------------------------------------
(* Reading a run from outside: its configuration and what it printed *)

StartsWith(s, p) == Len(s) >= Len(p) /\ SubSeq(s, 1, Len(p)) = p
EndsWith(s, p) == Len(s) >= Len(p) /\ SubSeq(s, Len(s) - Len(p) + 1, Len(s)) = p

\* The outcome a sequence of printed lines reports.
OutcomeOf(out) ==
    IF out = <<>> THEN "None"
    ELSE LET l == out[Len(out)]
         IN  IF StartsWith(l, "Failed to create user: ") THEN "Failed"
             ELSE IF StartsWith(l, "User '") /\ EndsWith(l, "' already exists.")
                  THEN "AlreadyExists"
             ELSE IF StartsWith(l, "User '") /\ Contains("' created with readWrite role on database '", l)
                  THEN "Created"
             ELSE IF StartsWith(l, "ERROR: ") THEN "ConfigError"
             ELSE "Other"

Outcome == OutcomeOf(stdout)

OutcomeLines == {"Created", "AlreadyExists", "Failed"}

\* A required secret is unset or empty in the environment.
SecretMissing ==
    \/ ~env.MONGO_ADMIN_PASSWORD.set \/ env.MONGO_ADMIN_PASSWORD.val = ""
    \/ ~env.APP_DB_PASSWORD.set \/ env.APP_DB_PASSWORD.val = ""

\* The database and user the environment asks for.
ConfiguredDb == IF env.MONGO_DB.set THEN env.MONGO_DB.val ELSE "appdb"
ConfiguredUser == IF env.APP_DB_USER.set THEN env.APP_DB_USER.val ELSE "appuser"

\* Valid configuration: the server's address and administrator, a usable
\* database name, a user name and both secrets.
ValidConfig ==
    /\ ~SecretMissing
    /\ ~env.MONGO_HOST.set /\ ~env.MONGO_PORT.set /\ ~env.MONGO_ADMIN_USER.set
    /\ env.MONGO_ADMIN_PASSWORD.val = "secretA"
    /\ ConfiguredDb # "" /\ ~Contains(".", ConfiguredDb)
    /\ ConfiguredUser # ""

ExistsIn(accounts, user, database) == \E a \in accounts : a.user = user /\ a.db = database

\* The server could not be reached by the command of this run.
ConnectionFailed == reply.type = "ServerSelectionTimeoutError"

\* The server refused the administrator's credentials.
AdminAuthFailed == reply.type = "OperationFailure" /\ reply.msg = "Authentication failed."

----------------------------------------------------------------------------
(* Properties *)

\* C1: in every environment where the admin password or the app password is
\* unset or empty, the process never builds a client and never sends a
\* command, and it ends with exit code 1; whenever the client is being built,
\* exists, or a command has been sent, both passwords are non-empty.
C1_MissingSecretExitsBeforeConnecting ==
    /\ SecretMissing =>
          /\ ~client.constructed
          /\ commands = <<>>
          /\ pc \in {"load_admin", "load_app", "done"}
          /\ pc = "done" => exitCode = 1
    /\ (pc = "build_client" \/ client.constructed \/ commands # <<>>) =>
          /\ ADMIN_PASS.set /\ ADMIN_PASS.val # ""
          /\ APP_PASS.set /\ APP_PASS.val # ""

C1_Witness ==
    /\ pc = "done"
    /\ env.MONGO_ADMIN_PASSWORD = SetTo("secretA")
    /\ env.APP_DB_PASSWORD = SetTo("")
    /\ exitCode = 1
    /\ stdout = <<"ERROR: APP_DB_PASSWORD environment variable must be set">>

\* C2 as stated, for the runs that got as far as the server: with both secrets
\* present, whatever the server did with the command, the finished run has
\* exit code 0 and has printed exactly one of the three outcome lines.
C2_AlwaysExitsZeroWithOutcome ==
    (pc = "done" /\ ~SecretMissing /\ commands # <<>>) =>
        exitCode = 0 /\ Len(stdout) = 1 /\ Outcome \in OutcomeLines

\* C2 amended: with both secrets present, a finished run whose command was
\* answered by the server (carried out, or refused with an operation failure)
\* has exit code 0 and exactly one outcome line; every other finished run (bad
\* port, URI or database name, unreachable server) has exit code 1, a
\* traceback and no outcome line.
C2_ExitsZeroWhenServerAnswers ==
    (pc = "done" /\ ~SecretMissing) =>
        IF reply.type \in {"ok", "OperationFailure"}
        THEN exitCode = 0 /\ Len(stdout) = 1 /\ Outcome \in OutcomeLines /\ traceback = ""
        ELSE exitCode = 1 /\ stdout = <<>> /\ traceback # ""

C2_Witness ==
    /\ pc = "done" /\ ~SecretMissing
    /\ reply.type = "OperationFailure"
    /\ exitCode = 0
    /\ Outcome = "Failed"

\* C3: a finished run that constructed a client has closed it.
C3_ClientClosedOnEveryPath ==
    (pc = "done" /\ client.constructed) => client.closed

\* C4: once the result of createUser has been handled, success has printed the
\* created line, a failure whose message says the user already exists has
\* printed the already-exists line, and every other failure of the command has
\* printed the failure line carrying the message.
C4_ThreeWayClassification ==
    pc \in {"finally", "return", "done"} =>
        /\ reply.type = "ok" => stdout = <<"User '" \o ConfiguredUser
                \o "' created with readWrite role on database '" \o ConfiguredDb \o "'.">>
        /\ (reply.type = "OperationFailure" /\ Contains("already exists", reply.msg)) =>
                stdout = <<"User '" \o ConfiguredUser \o "' already exists.">>
        /\ (reply.type = "OperationFailure" /\ ~Contains("already exists", reply.msg)) =>
                stdout = <<"Failed to create user: " \o reply.msg>>
        /\ reply.type = "OperationFailure" =>
                (Outcome = "AlreadyExists") # (Outcome = "Failed")

C4_Witness ==
    /\ pc = "done"
    /\ reply.type = "OperationFailure"
    /\ ExistsIn(usersAtStart, ConfiguredUser, ConfiguredDb)
    /\ Outcome = "AlreadyExists"

\* C5 as stated: createUser is sent at most once per run, and a run whose
\* connection to the server failed ends with outcome Failed.
C5_ConnectionFailureGivesFailed ==
    /\ Len(commands) <= 1
    /\ (pc = "done" /\ ConnectionFailed) => Outcome = "Failed"

\* C5 amended: createUser is sent at most once per run, and a run whose
\* connection to the server failed has sent it once, closed the client and
\* ended with the uncaught connection error: exit code 1, no outcome line.
C5_NoRetryConnectionFailureUncaught ==
    /\ Len(commands) <= 1
    /\ (pc = "done" /\ ConnectionFailed) =>
          /\ Len(commands) = 1
          /\ client.closed
          /\ stdout = <<>>
          /\ traceback = "ServerSelectionTimeoutError"
          /\ exitCode = 1

C5_Witness ==
    /\ pc = "done"
    /\ ~serverUp
    /\ ConnectionFailed
    /\ Len(commands) = 1

\* C6 as stated: neither an unreachable host nor an authentication failure of
\* the admin identity is classified; both end the process with a non-zero
\* exit code and no outcome line.
C6_ConnectionAndAuthFailuresUncaught ==
    (pc = "done" /\ (ConnectionFailed \/ AdminAuthFailed)) =>
        exitCode # 0 /\ Outcome = "None" /\ traceback # ""

\* C6 amended: an unreachable host is not classified and ends the process
\* with a traceback and a non-zero exit code; an authentication failure of the
\* admin identity is an operation failure of the command, so it is caught and
\* printed as the failure line, and the process exits 0.
C6_UnreachableUncaughtAuthFailureReported ==
    /\ (pc = "done" /\ ConnectionFailed) =>
          exitCode # 0 /\ Outcome = "None" /\ traceback # ""
    /\ (pc = "done" /\ AdminAuthFailed) =>
          /\ exitCode = 0
          /\ traceback = ""
          /\ stdout = <<"Failed to create user: Authentication failed.">>

C6_Witness ==
    /\ pc = "done"
    /\ serverUp
    /\ env.MONGO_ADMIN_PASSWORD = SetTo("wrong")
    /\ AdminAuthFailed
    /\ exitCode = 0

\* C7: with a valid configuration, a reachable server on which the admin may
\* create users and on which the target user does not exist, a finished run
\* has left exactly one account for the configured user on the configured
\* database, whose only role is readWrite on that database, and has printed
\* the created line.
C7_CreatesUserWithReadWriteRole ==
    (/\ pc = "done"
     /\ ValidConfig /\ serverUp /\ adminPrivileged
     /\ ~ExistsIn(usersAtStart, ConfiguredUser, ConfiguredDb)) =>
        /\ \E a \in users :
              /\ a.user = ConfiguredUser /\ a.db = ConfiguredDb
              /\ a.pwd = env.APP_DB_PASSWORD.val
              /\ a.roles = {[role |-> "readWrite", db |-> ConfiguredDb]}
              /\ \A b \in users : (b.user = a.user /\ b.db = a.db) => b = a
        /\ stdout = <<"User '" \o ConfiguredUser
              \o "' created with readWrite role on database '" \o ConfiguredDb \o "'.">>
        /\ exitCode = 0

C7_Witness ==
    /\ pc = "done"
    /\ ValidConfig /\ serverUp /\ adminPrivileged
    /\ ConfiguredUser = "salesuser" /\ ConfiguredDb = "salesdb"
    /\ ~ExistsIn(usersAtStart, ConfiguredUser, ConfiguredDb)
    /\ ExistsIn(users, ConfiguredUser, ConfiguredDb)
    /\ Outcome = "Created"

\* C8: a run that follows another run with the same configuration against the
\* same server leaves the accounts as the earlier run left them, and when the
\* earlier run reported creation it reports that the user already exists; a
\* run with a valid configuration against a reachable server that holds the
\* target user reports that it already exists and changes nothing.
C8_RerunIsIdempotent ==
    /\ (run > 1 /\ pc = "done") =>
          /\ users = prev.users
          /\ OutcomeOf(prev.stdout) = "Created" =>
                /\ stdout = <<"User '" \o ConfiguredUser \o "' already exists.">>
                /\ exitCode = 0
    /\ (/\ pc = "done"
        /\ ValidConfig /\ serverUp /\ adminPrivileged
        /\ ExistsIn(usersAtStart, ConfiguredUser, ConfiguredDb)) =>
          /\ stdout = <<"User '" \o ConfiguredUser \o "' already exists.">>
          /\ users = usersAtStart

C8_Witness ==
    /\ run = 2 /\ pc = "done"
    /\ OutcomeOf(prev.stdout) = "Created"
    /\ Outcome = "AlreadyExists"
    /\ users = prev.users

\* C9: during a run the server's accounts differ from those at its start by at
\* most one added account, and only in a run that reports creation: a
\* finished run has changed the accounts exactly when its outcome is Created.
C9_AccountsChangeOnlyWhenCreated ==
    /\ users # usersAtStart =>
          /\ \E a \in users : a \notin usersAtStart /\ users = usersAtStart \cup {a}
          /\ pc \in {"print_created", "finally", "return", "done"}
          /\ pc # "print_created" => Outcome = "Created"
    /\ pc = "done" => ((Outcome = "Created") <=> (users # usersAtStart))

C9_Witness ==
    /\ pc = "done"
    /\ Outcome = "Created"
    /\ Cardinality(users) = Cardinality(usersAtStart) + 1

\* C10: every createUser command sent carries a non-empty database name, a
\* non-empty user name and a non-empty password.
C10_CommandCarriesNonEmptySpec ==
    \A i \in 1..Len(commands) :
        commands[i].on # "" /\ commands[i].user # "" /\ commands[i].pwd # ""

====
